---------------------------- MODULE Spec2Model ----------------------------
(***************************************************************************)
(* Model of the Repeater-Alerts speech segmentation engine                 *)
(* (audio_processor.py: AudioProcessor) and of the reconnection loop       *)
(* (transcriber.py: BroadcastifyTranscriber.runContinuousTranscription).   *)
(*                                                                         *)
(* Time is counted in half seconds: every duration of the source           *)
(* (0.5, 1.0, 1.5, 2.0, 4.0, 8.0, 15.0, 30.0 ...) is a whole number of     *)
(* half seconds, and Sec(s, h) is s seconds plus h half seconds.           *)
(***************************************************************************)
EXTENDS Integers, Sequences, FiniteSets, TLC

VARIABLES
    ap,        \* the AudioProcessor object (its attributes)
    now,       \* wall clock at the latest processed window (time.time())
    op,        \* the latest operation on the accumulator
    arg,       \* its arguments (audio_chunk, has_speech, current_time)
    pre,       \* the AudioProcessor attributes before that operation
    ret,       \* what it returned: None or Some(message)
    raised,    \* whether np.concatenate raised inside that operation
    prev,      \* the operation before the latest one, and what it returned
    seg_log,   \* the windows handed to the accumulator since the open segment began
    pc,                         \* where runContinuousTranscription stands
    is_running,                 \* BroadcastifyTranscriber.is_running
    _shutdown_requested,        \* BroadcastifyTranscriber._shutdown_requested
    current_network_delay,      \* locals of runContinuousTranscription
    current_feed_outage_delay,
    consecutive_feed_errors,
    net_run,   \* the network waits since the latest successful stream resolution
    failures_before_reset,  \* how many waits the latest successful resolution ended
    feed_run,  \* the feed outage waits since the latest transcription with text
    gen,       \* the generator streamAudioChunks returned for the current connection
    shut,      \* what the run did around the shutdown request
    rd,        \* the locals of the generator streamAudioChunks
    vad,       \* the latest call of VoiceActivityDetector.detectSpeech
    hist       \* the speech windows observed and the messages returned so far

accVars == <<now, op, arg, pre, ret, raised, prev, seg_log>>

ctlVars == <<pc, is_running, _shutdown_requested, current_network_delay,
             current_feed_outage_delay, consecutive_feed_errors, net_run,
             failures_before_reset, feed_run, gen, shut>>

vars == <<ap, accVars, ctlVars, rd, vad, hist>>

---------------------------------------------------------------------------
(* Bounds of the model *)

\* the clock stops at MaxTime half seconds
MaxTime == 80

\* no further window is observed once the open segment holds MaxWindows windows
MaxWindows == 6

\* a segment begins only in the first MaxStart half seconds
MaxStart == 10

\* no further network failure happens after MaxNetFailures waits in a row
MaxNetFailures == 11

\* no further feed outage happens after MaxFeedErrors outages in a row
MaxFeedErrors == 10

\* a chunk of the byte stream holds at most MaxChunk bytes
MaxChunk == 4

\* the byte stream of one connection delivers at most MaxBytes bytes
MaxBytes == 7

\* stop() is called at most this often
MaxStops == 3

\* streamAudioChunks is called at most this often on one processor
MaxConnections == 2

---------------------------------------------------------------------------
(* Values *)

Sec(s, h) == 2 * s + h

Max(a, b) == IF a >= b THEN a ELSE b

\* Optional[np.ndarray]: None, or a message
None == <<>>

Some(m) == <<m>>

RECURSIVE gcd(_, _)
gcd(a, b) == IF b = 0 THEN a ELSE gcd(b, a % b)

\* a float delay, kept exactly as the fraction n / d in lowest terms
Frac(n, d) == [n |-> n \div gcd(n, d), d |-> d \div gcd(n, d)]

Whole(k) == [n |-> k, d |-> 1]

\* delay * (n / d)
Times(delay, n, d) == Frac(delay.n * n, delay.d * d)

Leq(p, q) == p.n * q.d <= q.n * p.d

\* Python's min(p, q)
MinOf(p, q) == IF Leq(q, p) /\ ~Leq(p, q) THEN q ELSE p

\* the reconnection delay constants of runContinuousTranscription (seconds)
base_reconnect_delay == 10

feed_outage_delay == 60

max_network_delay == 300

max_feed_outage_delay == 1800

\* the spacings of successive windows: 0.5 s, 2.0 s (the default cadence), 12.0 s
Steps == {Sec(0, 1), Sec(2, 0), Sec(12, 0)}

\* the window decoded at time t: 0, 1 or 2 samples, stamped with t
ChunkAt(t) == [i \in 1..(t % 3) |-> t]

RECURSIVE concatenate_reversed(_)
\* variant: each array is joined in front of the ones before it
concatenate_reversed(segments) ==
    IF segments = <<>> THEN <<>>
    ELSE concatenate_reversed(Tail(segments)) \o Head(segments)

RECURSIVE concatenate(_)
\* np.concatenate over a list of one-dimensional arrays
concatenate(segments) ==
    IF segments = <<>> THEN <<>>
    ELSE Head(segments) \o concatenate(Tail(segments))

---------------------------------------------------------------------------
(* AudioProcessor *)

\* AudioProcessor.__init__: the configuration and the speech accumulation state
AudioProcessor(max_speech_duration, silence_threshold, min_message_duration) ==
    [ max_speech_duration |-> max_speech_duration,
      silence_threshold |-> silence_threshold,
      min_message_duration |-> min_message_duration,
      is_streaming |-> FALSE,
      speech_segments |-> <<>>,
      last_speech_time |-> 0,
      speech_start_time |-> 0,
      is_in_speech |-> FALSE,
      consecutive_silence_count |-> 0,
      speech_chunk_count |-> 0 ]

\* the processor the transcriber builds (the defaults of __init__)
DefaultProcessor == AudioProcessor(Sec(30, 0), Sec(4, 0), Sec(1, 0))

\* the processor test_speech_accumulation builds
TestProcessor == AudioProcessor(Sec(10, 0), Sec(1, 1), Sec(1, 0))

\* the state reset of _finalizeSpeechMessage after a successful concatenation
reset_accumulation(self) ==
    [self EXCEPT !.speech_segments = <<>>,
                 !.is_in_speech = FALSE,
                 !.speech_start_time = 0,
                 !.last_speech_time = 0,
                 !.consecutive_silence_count = 0,
                 !.speech_chunk_count = 0]

\* variant: the error path leaves the speech chunk count as it is
reset_on_error_keeping_count(self) ==
    [self EXCEPT !.speech_segments = <<>>,
                 !.is_in_speech = FALSE,
                 !.consecutive_silence_count = 0]

\* the state reset of _finalizeSpeechMessage after np.concatenate raised
reset_on_error(self) ==
    [self EXCEPT !.speech_segments = <<>>,
                 !.is_in_speech = FALSE,
                 !.consecutive_silence_count = 0,
                 !.speech_chunk_count = 0]

\* variant: the error path leaves is_in_speech set
finalize_error_keeps_in_speech(self, concat_ok) ==
    IF self.speech_segments = <<>>
    THEN [ap |-> self, ret |-> None, raised |-> FALSE]
    ELSE IF concat_ok
    THEN [ap |-> reset_accumulation(self),
          ret |-> Some(concatenate(self.speech_segments)),
          raised |-> FALSE]
    ELSE [ap |-> [reset_on_error(self) EXCEPT !.is_in_speech = TRUE],
          ret |-> None,
          raised |-> TRUE]

\* variant: the message is returned and the windows are kept
finalize_keeps_segments(self, concat_ok) ==
    IF self.speech_segments = <<>>
    THEN [ap |-> self, ret |-> None, raised |-> FALSE]
    ELSE IF concat_ok
    THEN [ap |-> self,
          ret |-> Some(concatenate(self.speech_segments)),
          raised |-> FALSE]
    ELSE [ap |-> reset_on_error(self), ret |-> None, raised |-> TRUE]

\* variant: speech_chunk_count is not reset with the rest
finalize_keeps_chunk_count(self, concat_ok) ==
    IF self.speech_segments = <<>>
    THEN [ap |-> self, ret |-> None, raised |-> FALSE]
    ELSE IF concat_ok
    THEN [ap |-> [reset_accumulation(self) EXCEPT
                     !.speech_chunk_count = self.speech_chunk_count],
          ret |-> Some(concatenate(self.speech_segments)),
          raised |-> FALSE]
    ELSE [ap |-> reset_on_error(self), ret |-> None, raised |-> TRUE]

\* AudioProcessor._finalizeSpeechMessage; concat_ok: np.concatenate does not raise
_finalizeSpeechMessage(self, concat_ok) ==
    IF self.speech_segments = <<>>
    THEN [ap |-> self, ret |-> None, raised |-> FALSE]
    ELSE IF concat_ok
    THEN [ap |-> reset_accumulation(self),
          ret |-> Some(concatenate(self.speech_segments)),
          raised |-> FALSE]
    ELSE [ap |-> reset_on_error(self), ret |-> None, raised |-> TRUE]

\* variant: the density adjustment is left out
effective_without_density(self, current_time) ==
    LET speech_duration == current_time - self.speech_start_time
    IN  IF speech_duration > Sec(15, 0) THEN self.silence_threshold + Sec(2, 0)
        ELSE IF speech_duration > Sec(8, 0) THEN self.silence_threshold + Sec(1, 1)
        ELSE IF speech_duration > Sec(4, 0) THEN self.silence_threshold + Sec(1, 0)
        ELSE self.silence_threshold + Sec(0, 1)

\* variant: the density is compared with 0.5 chunks per second
effective_sparse_below_half(self, current_time) ==
    LET speech_duration == current_time - self.speech_start_time
        bumped == IF speech_duration > Sec(15, 0) THEN self.silence_threshold + Sec(2, 0)
                  ELSE IF speech_duration > Sec(8, 0) THEN self.silence_threshold + Sec(1, 1)
                  ELSE IF speech_duration > Sec(4, 0) THEN self.silence_threshold + Sec(1, 0)
                  ELSE self.silence_threshold + Sec(0, 1)
        sparse == 10 * self.speech_chunk_count * Sec(1, 0) < 5 * Max(Sec(1, 0), speech_duration)
    IN  IF sparse THEN bumped + Sec(1, 0) ELSE bumped

\* the adaptive silence threshold of _handleSpeechAccumulation (lines 326-343)
effective_silence_threshold(self, current_time) ==
    LET speech_duration == current_time - self.speech_start_time
        bumped == IF speech_duration > Sec(15, 0) THEN self.silence_threshold + Sec(2, 0)
                  ELSE IF speech_duration > Sec(8, 0) THEN self.silence_threshold + Sec(1, 1)
                  ELSE IF speech_duration > Sec(4, 0) THEN self.silence_threshold + Sec(1, 0)
                  ELSE self.silence_threshold + Sec(0, 1)
        \* speech_chunk_count / max(1, speech_duration) < 0.8, durations in half seconds
        sparse == 10 * self.speech_chunk_count * Sec(1, 0) < 8 * Max(Sec(1, 0), speech_duration)
    IN  IF sparse THEN bumped + Sec(1, 0) ELSE bumped

\* variant: one speech chunk is enough
has_some_content(self, current_time) ==
    /\ self.speech_chunk_count >= 1
    /\ current_time - self.speech_start_time >= self.min_message_duration

\* has_sufficient_content of _handleSpeechAccumulation (lines 346-349)
has_sufficient_content(self, current_time) ==
    /\ self.speech_chunk_count >= 2
    /\ current_time - self.speech_start_time >= self.min_message_duration

\* variant: the duration has to exceed the maximum
exceeded_max_duration(self, current_time) ==
    current_time - self.speech_start_time > self.max_speech_duration

\* variant: the maximum speech duration is not checked
max_duration_unchecked(self, current_time) == FALSE

\* the maximum speech duration test of _handleSpeechAccumulation (lines 305-308)
reached_max_duration(self, current_time) ==
    current_time - self.speech_start_time >= self.max_speech_duration

\* variant: the silence has to exceed three thresholds
longer_than_very_long_silence(self, silence_duration) ==
    silence_duration > self.silence_threshold * 3

\* variant: the silence has to reach four thresholds
silence_of_four_thresholds(self, silence_duration) ==
    silence_duration >= self.silence_threshold * 4

\* the forced finalization test of _handleSpeechAccumulation (line 353)
very_long_silence(self, silence_duration) ==
    silence_duration >= self.silence_threshold * 3

\* variant: a non-speech window seen outside speech is kept
idle_silence_keeps_window(self, audio_chunk) ==
    [self EXCEPT !.speech_segments = Append(@, audio_chunk)]

\* lines 313-315, 357: no speech and not in speech, nothing is touched
idle_silence(self, audio_chunk) == self

\* variant: a start time left over from before is kept
start_speech_keeping_old_time(self, audio_chunk, current_time) ==
    [self EXCEPT !.is_in_speech = TRUE,
                 !.speech_start_time = IF @ # 0 THEN @ ELSE current_time,
                 !.speech_segments = <<audio_chunk>>,
                 !.speech_chunk_count = 1,
                 !.consecutive_silence_count = 0,
                 !.last_speech_time = current_time]

\* lines 292-298 and 311: a speech window starts a new segment
start_speech(self, audio_chunk, current_time) ==
    [self EXCEPT !.is_in_speech = TRUE,
                 !.speech_start_time = current_time,
                 !.speech_segments = <<audio_chunk>>,
                 !.speech_chunk_count = 1,
                 !.consecutive_silence_count = 0,
                 !.last_speech_time = current_time]

\* variant: the window is put in front of the others
continue_speech_in_front(self, audio_chunk) ==
    [self EXCEPT !.speech_segments = <<audio_chunk>> \o @,
                 !.speech_chunk_count = @ + 1,
                 !.consecutive_silence_count = 0]

\* variant: the speech window is counted and not kept
continue_speech_not_kept(self, audio_chunk) ==
    [self EXCEPT !.speech_chunk_count = @ + 1,
                 !.consecutive_silence_count = 0]

\* lines 300-303: a speech window continues the segment
continue_speech(self, audio_chunk) ==
    [self EXCEPT !.speech_segments = Append(@, audio_chunk),
                 !.speech_chunk_count = @ + 1,
                 !.consecutive_silence_count = 0]

\* variant: the non-speech window is counted and not kept
silence_in_speech_not_kept(self, audio_chunk) ==
    [self EXCEPT !.consecutive_silence_count = @ + 1]

\* lines 316-320: a non-speech window inside the segment
silence_in_speech(self, audio_chunk) ==
    [self EXCEPT !.consecutive_silence_count = @ + 1,
                 !.speech_segments = Append(@, audio_chunk)]

\* AudioProcessor._handleSpeechAccumulation
_handleSpeechAccumulation(self, audio_chunk, has_speech, current_time, concat_ok) ==
    IF has_speech
    THEN IF ~self.is_in_speech
         THEN [ap |-> start_speech(self, audio_chunk, current_time),
               ret |-> None, raised |-> FALSE]
         ELSE LET s1 == continue_speech(self, audio_chunk)
              IN  IF reached_max_duration(s1, current_time)
                  THEN _finalizeSpeechMessage(s1, concat_ok)
                  ELSE [ap |-> [s1 EXCEPT !.last_speech_time = current_time],
                        ret |-> None, raised |-> FALSE]
    ELSE IF self.is_in_speech
         THEN LET silence_duration == current_time - self.last_speech_time
                  s1 == silence_in_speech(self, audio_chunk)
              IN  IF /\ silence_duration >= effective_silence_threshold(s1, current_time)
                     /\ has_sufficient_content(s1, current_time)
                  THEN _finalizeSpeechMessage(s1, concat_ok)
                  ELSE IF very_long_silence(s1, silence_duration)
                  THEN _finalizeSpeechMessage(s1, concat_ok)
                  ELSE [ap |-> s1, ret |-> None, raised |-> FALSE]
         ELSE [ap |-> idle_silence(self, audio_chunk), ret |-> None, raised |-> FALSE]

\* variant: the pending windows are dropped without a message
flush_without_message(self, concat_ok) ==
    [ap |-> [reset_accumulation(self) EXCEPT !.is_streaming = FALSE],
     ret |-> None, raised |-> FALSE]

\* variant: the finally block leaves the pending windows where they are
flush_skipped(self, concat_ok) ==
    [ap |-> [self EXCEPT !.is_streaming = FALSE], ret |-> None, raised |-> FALSE]

\* the finally block of AudioProcessor.streamAudioChunks: the final flush
flush(self, concat_ok) ==
    LET r == IF self.is_in_speech /\ self.speech_segments # <<>>
             THEN _finalizeSpeechMessage(self, concat_ok)
             ELSE [ap |-> self, ret |-> None, raised |-> FALSE]
    IN  [r EXCEPT !.ap.is_streaming = FALSE]

---------------------------------------------------------------------------
(* The accumulator driven window by window *)

NoArg == [audio_chunk |-> <<>>, has_speech |-> FALSE, current_time |-> 0]

\* the generator of a connection that was not opened yet
NewGenerator ==
    [at |-> "none", opened |-> FALSE, end_cause |-> "none", transcribed |-> "none",
     delay_at_end |-> Whole(base_reconnect_delay),
     feed_errors_at_open |-> 0, feed_delay_at_open |-> Whole(feed_outage_delay),
     follows |-> "none", silent |-> 0]

\* no shutdown was requested yet
NoShutdown ==
    [after_flag |-> {}, dropped |-> FALSE, pending_at_signal |-> FALSE, stops |-> 0]

\* streamAudioChunks was not called yet
NoReader ==
    [pc |-> "idle", audio_data |-> <<>>, bytes_collected |-> 0, last_process_time |-> 0,
     current_time |-> 0, bytes_read |-> 0, cause |-> "none", emitted |-> 0,
     emitted_at_end |-> 0, window |-> "none", window_data |-> <<>>, decode_ok |-> TRUE,
     connection |-> 0, opened_at |-> 0, prev_end |-> "none"]

\* nothing was observed or returned yet
NoHistory == [speech |-> <<>>, messages |-> <<>>]

\* detectSpeech has not been called
NoDetection ==
    [called |-> FALSE, self |-> <<>>, audio |-> <<>>, spectral_centroid |-> None,
     ret |-> FALSE, raised |-> FALSE]

Init ==
    /\ ap \in {DefaultProcessor, TestProcessor}
    /\ now = 0
    /\ op = "init"
    /\ arg = NoArg
    /\ pre = ap
    /\ ret = None
    /\ raised = FALSE
    /\ prev = [op |-> "init", ret |-> None]
    /\ seg_log = <<>>
    /\ pc = "start"
    /\ is_running = FALSE
    /\ _shutdown_requested = FALSE
    /\ current_network_delay = Whole(base_reconnect_delay)
    /\ current_feed_outage_delay = Whole(feed_outage_delay)
    /\ consecutive_feed_errors = 0
    /\ net_run = <<>>
    /\ failures_before_reset = 0
    /\ feed_run = <<>>
    /\ gen = NewGenerator
    /\ shut = NoShutdown
    /\ rd = NoReader
    /\ vad = NoDetection
    /\ hist = NoHistory

\* one window reaches _handleSpeechAccumulation, step half seconds after the last
ObserveWindow(step, has_speech, concat_ok) ==
    /\ now + step <= MaxTime
    /\ Len(ap.speech_segments) < MaxWindows
    /\ (has_speech /\ ~ap.is_in_speech) => now + step <= MaxStart
    /\ LET t == now + step
           a == [audio_chunk |-> ChunkAt(t), has_speech |-> has_speech, current_time |-> t]
           r == _handleSpeechAccumulation(ap, a.audio_chunk, has_speech, t, concat_ok)
       IN  /\ now' = t
           /\ op' = "observe"
           /\ arg' = a
           /\ pre' = ap
           /\ ap' = r.ap
           /\ ret' = r.ret
           /\ raised' = r.raised
           /\ prev' = [op |-> op, ret |-> ret]
           /\ seg_log' = IF ap.is_in_speech THEN Append(seg_log, a)
                         ELSE IF has_speech THEN <<a>> ELSE <<>>
    /\ UNCHANGED <<ctlVars, rd, vad>>

\* the stream ends: the final flush
FinalFlush(concat_ok) ==
    /\ LET r == flush(ap, concat_ok)
       IN  /\ op' = "flush"
           /\ arg' = NoArg
           /\ pre' = ap
           /\ ap' = r.ap
           /\ ret' = r.ret
           /\ raised' = r.raised
           /\ prev' = [op |-> op, ret |-> ret]
    /\ UNCHANGED <<now, seg_log>>
    /\ UNCHANGED <<ctlVars, rd, vad>>

Observe(step, has_speech, concat_ok) ==
    /\ ObserveWindow(step, has_speech, concat_ok)
    /\ UNCHANGED hist

Flush(concat_ok) ==
    /\ FinalFlush(concat_ok)
    /\ UNCHANGED hist

\* np.concatenate never raises
Next ==
    \/ \E step \in Steps, has_speech \in BOOLEAN : Observe(step, has_speech, TRUE)
    \/ Flush(TRUE)

Spec == Init /\ [][Next]_vars

\* np.concatenate may raise
NextFault ==
    \/ \E step \in Steps, has_speech \in BOOLEAN, concat_ok \in BOOLEAN :
          Observe(step, has_speech, concat_ok)
    \/ \E concat_ok \in BOOLEAN : Flush(concat_ok)

SpecFault == Init /\ [][NextFault]_vars

\* the history after the latest operation: a speech window is added to the
\* windows observed, a returned message to the messages
Logged ==
    [speech |-> IF op' = "observe" /\ arg'.has_speech
                THEN Append(hist.speech, arg')
                ELSE hist.speech,
     messages |-> IF ret' # None
                  THEN Append(hist.messages, ret'[1])
                  ELSE hist.messages]

ObserveLogged(step, has_speech) ==
    /\ ObserveWindow(step, has_speech, TRUE)
    /\ hist' = Logged

FlushLogged ==
    /\ FinalFlush(TRUE)
    /\ hist' = Logged

\* observe and flush with the history kept, np.concatenate never raises; the
\* windows come 2 s or 12 s apart
NextHistory ==
    \/ \E step \in {Sec(2, 0), Sec(12, 0)}, has_speech \in BOOLEAN :
          ObserveLogged(step, has_speech)
    \/ FlushLogged

SpecHistory == Init /\ [][NextHistory]_vars

---------------------------------------------------------------------------
(* BroadcastifyTranscriber.runContinuousTranscription *)

flagVars == <<is_running, _shutdown_requested>>

feedVars == <<current_feed_outage_delay, consecutive_feed_errors, feed_run>>

netVars == <<current_network_delay, net_run, failures_before_reset>>

obsVars == <<op, arg, pre, ret, raised, prev, seg_log>>

\* variant: the delay doubles
doubled_retry_delay(delay) ==
    MinOf(Times(delay, 2, 1), Whole(max_network_delay))

\* the network delay after a failed stream resolution (line 120)
retry_delay_after_resolution_failure(delay) ==
    MinOf(Times(delay, 3, 2), Whole(max_network_delay))

\* the network delay after an unexpected error in the loop body (line 188)
restart_delay_after_error(delay) ==
    MinOf(Times(delay, 3, 2), Whole(max_network_delay))

\* variant: the multiplier of the other two network waits
reconnect_delay_like_a_failure(delay) ==
    MinOf(Times(delay, 3, 2), Whole(max_network_delay))

\* the network delay after the stream ended (line 151)
reconnect_delay_after_disconnect(delay) ==
    MinOf(Times(delay, 6, 5), Whole(max_network_delay))

\* variant: the feed outage delay grows without a cap
feed_outage_delay_uncapped(delay) == Times(delay, 3, 2)

\* the feed outage delay after a feed outage (line 180)
feed_outage_delay_after_outage(delay) ==
    MinOf(Times(delay, 3, 2), Whole(max_feed_outage_delay))

\* time.sleep(secs): the time slept.  The handler of a signal that arrives during
\* the sleep returns normally, and the sleep goes on for the rest of secs.
sleep(secs, signalled) == secs

\* time.sleep(current_network_delay) followed by the new delay
Wait(kind, new_delay) ==
    /\ net_run' = Append(net_run, [kind |-> kind,
                                   wait |-> current_network_delay,
                                   slept |-> sleep(current_network_delay,
                                                   _shutdown_requested),
                                   interrupted |-> _shutdown_requested,
                                   opened |-> gen.opened,
                                   follows |-> gen.follows,
                                   then |-> new_delay])
    /\ current_network_delay' = new_delay

\* lines 95-106: is_running and the delays are set up
Start ==
    /\ pc = "start"
    /\ pc' = "while"
    /\ is_running' = TRUE
    /\ current_network_delay' = Whole(base_reconnect_delay)
    /\ current_feed_outage_delay' = Whole(feed_outage_delay)
    /\ consecutive_feed_errors' = 0
    /\ UNCHANGED <<ap, accVars, rd, vad, hist, _shutdown_requested, net_run, failures_before_reset,
                   feed_run, gen, shut>>

\* line 109: while self.is_running
WhileTest ==
    /\ pc = "while"
    /\ pc' = IF is_running THEN "extract" ELSE "stop"
    /\ UNCHANGED <<ap, accVars, rd, vad, hist, flagVars, netVars, feedVars, gen, shut>>

\* the kind of the network wait that the loop has just come from, if any
last_wait == IF net_run = <<>> THEN "none" ELSE net_run[Len(net_run)].kind

\* lines 112-113: extractStreamUrl is called
ResolutionStarts ==
    /\ pc = "extract"
    /\ pc' = "resolving"
    /\ shut' = [shut EXCEPT !.after_flag =
                   IF _shutdown_requested THEN @ \cup {"resolution"} ELSE @]
    /\ gen' = [NewGenerator EXCEPT !.follows = last_wait]
    /\ UNCHANGED <<ap, accVars, rd, vad, hist, flagVars, netVars, feedVars>>

\* lines 113-121: extractStreamUrl returns no URL or no feed name
ResolutionFails ==
    /\ pc = "resolving"
    /\ Len(net_run) + Len(feed_run) < MaxNetFailures
    /\ pc' = IF is_running THEN "sleep_retry" ELSE "while"
    /\ UNCHANGED <<ap, accVars, rd, vad, hist, flagVars, netVars, feedVars, gen, shut>>

\* lines 119-121: the wait, the longer delay, continue
RetryWait ==
    /\ pc = "sleep_retry"
    /\ Wait("failure", retry_delay_after_resolution_failure(current_network_delay))
    /\ pc' = "while"
    /\ UNCHANGED <<ap, accVars, rd, vad, hist, flagVars, failures_before_reset, feedVars, gen, shut>>

\* variant: the network delay is not reset
ResolutionSucceeds_keeping_delay ==
    /\ pc = "resolving"
    /\ net_run' = <<>>
    /\ failures_before_reset' = Len(net_run)
    /\ pc' = "open"
    /\ UNCHANGED <<ap, accVars, rd, vad, hist, flagVars, feedVars, gen, shut,
                   current_network_delay>>

\* lines 113-127: the stream is resolved and the network delay is reset
ResolutionSucceeds ==
    /\ pc = "resolving"
    /\ current_network_delay' = Whole(base_reconnect_delay)
    /\ net_run' = <<>>
    /\ failures_before_reset' = Len(net_run)
    /\ pc' = "open"
    /\ UNCHANGED <<ap, accVars, rd, vad, hist, flagVars, feedVars, gen, shut>>

\* line 113: extractStreamUrl raises (the browser driver cannot be started)
ResolutionRaises ==
    /\ pc = "resolving"
    /\ Len(net_run) + Len(feed_run) < MaxNetFailures
    /\ pc' = "except"
    /\ UNCHANGED <<ap, accVars, rd, vad, hist, flagVars, netVars, feedVars, gen, shut>>

\* line 130 and audio_processor.py lines 162-163: the first next() on
\* streamAudioChunks starts the generator
StartedGenerator ==
    [NewGenerator EXCEPT !.at = "running",
                         !.follows = gen.follows,
                         !.feed_errors_at_open = consecutive_feed_errors,
                         !.feed_delay_at_open = current_feed_outage_delay]

OpenedUnderFlag ==
    [shut EXCEPT !.after_flag = IF _shutdown_requested THEN @ \cup {"open"} ELSE @]

\* audio_processor.py lines 214-226: the stream is over for the reason cause (the
\* exception, if any, is caught and printed), the finally block flushes the
\* accumulator and either yields the final message or ends the generator
EndOfStream(g, cause) ==
    LET r == flush(ap, TRUE)
    IN  IF r.ret # None
        THEN /\ ap' = [r.ap EXCEPT !.is_streaming = TRUE]
             /\ gen' = [g EXCEPT !.at = "final", !.end_cause = cause,
                                 !.delay_at_end = current_network_delay]
             /\ pc' = "body"
        ELSE /\ ap' = r.ap
             /\ gen' = [g EXCEPT !.at = "ended", !.end_cause = cause,
                                 !.delay_at_end = current_network_delay]
             /\ pc' = "after_for"

\* audio_processor.py lines 166-176: requests.get answers and raise_for_status passes
StreamOpens ==
    /\ pc = "open"
    /\ ap' = [ap EXCEPT !.is_streaming = TRUE]
    /\ gen' = [StartedGenerator EXCEPT !.opened = TRUE]
    /\ shut' = OpenedUnderFlag
    /\ pc' = "for"
    /\ UNCHANGED <<accVars, rd, vad, hist, flagVars, netVars, feedVars>>

\* audio_processor.py lines 166-167, 214-226: requests.get raises (cause "refused":
\* no connection, timeout) or raise_for_status raises for a 4xx / 5xx answer (cause
\* "unavailable"); both are RequestException, caught at line 214
OpenFails(cause) ==
    /\ pc = "open"
    /\ EndOfStream(StartedGenerator, cause)
    /\ shut' = OpenedUnderFlag
    /\ UNCHANGED <<accVars, rd, vad, hist, flagVars, netVars, feedVars>>

\* audio_processor.py lines 187-198: inside next(), a window with speech reaches the
\* accumulator while it is Idle; nothing is yielded
StreamAccumulates ==
    /\ pc = "for"
    /\ ~ap.is_in_speech
    /\ now + Sec(2, 0) <= MaxTime
    /\ now' = now + Sec(2, 0)
    /\ ap' = _handleSpeechAccumulation(ap, ChunkAt(now'), TRUE, now', TRUE).ap
    /\ UNCHANGED <<obsVars, rd, vad, hist, pc, flagVars, netVars, feedVars, gen, shut>>

\* audio_processor.py lines 187-203: inside next(), a window without speech, 12 s after
\* the last one, completes the message, which is yielded to the for loop of line 130
StreamYields ==
    /\ pc = "for"
    /\ ap.is_in_speech
    /\ now + Sec(12, 0) <= MaxTime
    /\ now' = now + Sec(12, 0)
    /\ LET r == _handleSpeechAccumulation(ap, ChunkAt(now'), FALSE, now', TRUE)
       IN  /\ r.ret # None
           /\ ap' = r.ap
    /\ gen' = [gen EXCEPT !.at = "yield"]
    /\ pc' = "body"
    /\ UNCHANGED <<obsVars, rd, vad, hist, flagVars, netVars, feedVars, shut>>

\* audio_processor.py lines 178, 214-226: iter_content is exhausted (cause "closed")
\* or raises (cause "read_error")
StreamEnds(cause) ==
    /\ pc = "for"
    /\ EndOfStream(gen, cause)
    /\ UNCHANGED <<accVars, rd, vad, hist, flagVars, netVars, feedVars, shut>>

\* the generator is closed while suspended at a yield: GeneratorExit is raised there.
\* At line 203 the finally block runs (the accumulator is Idle after a message, so
\* it yields nothing); at line 224 the exception leaves the finally block before
\* line 226 and is_streaming stays set
close(self, at) ==
    IF at = "final" THEN self ELSE flush(self, TRUE).ap

\* lines 131-132: if not self.is_running: break, which drops the generator and the
\* message it just yielded
ForBody ==
    /\ pc = "body"
    /\ IF is_running
       THEN /\ pc' = "transcribe"
            /\ UNCHANGED <<ap, gen, shut>>
       ELSE /\ pc' = "after_for"
            /\ ap' = close(ap, gen.at)
            /\ gen' = [gen EXCEPT !.at = "closed"]
            /\ shut' = [shut EXCEPT !.dropped = TRUE]
    /\ UNCHANGED <<accVars, rd, vad, hist, flagVars, netVars, feedVars>>

\* variant: the text does not reset the feed outage delay
feed_delay_kept_after_transcription(has_text, delay) == delay

\* lines 139-143: the feed outage delay after a transcription
feed_delay_after_transcription(has_text, delay) ==
    IF has_text THEN Whole(feed_outage_delay) ELSE delay

\* lines 139-142: the feed error count after a transcription
feed_errors_after_transcription(has_text, errors) ==
    IF has_text THEN 0 ELSE errors

\* line 139: transcription and len(transcription.strip()) > 0
Result(has_text) == IF has_text THEN "text" ELSE "empty"

\* lines 134-145 and 130: the message is transcribed (has_text: transcribeAudio
\* returned text), then next() resumes the generator, which ends at once
\* (audio_processor.py line 226) when the message was the final one
Transcribe(has_text) ==
    /\ pc = "transcribe"
    /\ shut' = [shut EXCEPT !.after_flag =
                   IF _shutdown_requested THEN @ \cup {"transcribe"} ELSE @]
    /\ current_feed_outage_delay' =
          feed_delay_after_transcription(has_text, current_feed_outage_delay)
    /\ consecutive_feed_errors' =
          feed_errors_after_transcription(has_text, consecutive_feed_errors)
    /\ feed_run' = IF has_text THEN <<>> ELSE feed_run
    /\ IF gen.at = "final"
       THEN /\ ap' = [ap EXCEPT !.is_streaming = FALSE]
            /\ gen' = [gen EXCEPT !.at = "ended", !.transcribed = Result(has_text)]
            /\ pc' = "after_for"
       ELSE /\ gen' = [gen EXCEPT !.at = "running", !.transcribed = Result(has_text)]
            /\ pc' = "for"
            /\ UNCHANGED ap
    /\ UNCHANGED <<accVars, rd, vad, hist, flagVars, netVars>>

\* lines 134-145: consuming the message raises (an unexpected error in the loop
\* body); the exception leaves the for loop, which drops the generator
ConsumeRaises ==
    /\ pc = "transcribe"
    /\ ap' = close(ap, gen.at)
    /\ gen' = [gen EXCEPT !.at = "closed"]
    /\ pc' = "except"
    /\ UNCHANGED <<accVars, rd, vad, hist, flagVars, netVars, feedVars, shut>>

\* variant: the error is raised again and ends the loop
HandleError_leaves_the_loop ==
    /\ pc = "except"
    /\ pc' = "stop"
    /\ UNCHANGED <<ap, accVars, rd, vad, hist, flagVars, netVars, feedVars, gen, shut>>

\* lines 181-185: except Exception
HandleError ==
    /\ pc = "except"
    /\ pc' = IF is_running THEN "sleep_restart" ELSE "while"
    /\ UNCHANGED <<ap, accVars, rd, vad, hist, flagVars, netVars, feedVars, gen, shut>>

\* lines 186-188: the wait and the longer delay
RestartWait ==
    /\ pc = "sleep_restart"
    /\ Wait("failure", restart_delay_after_error(current_network_delay))
    /\ pc' = "while"
    /\ UNCHANGED <<ap, accVars, rd, vad, hist, flagVars, failures_before_reset, feedVars, gen, shut>>

\* lines 147-149: after the for loop
AfterFor ==
    /\ pc = "after_for"
    /\ pc' = IF is_running THEN "sleep_reconnect" ELSE "while"
    /\ UNCHANGED <<ap, accVars, rd, vad, hist, flagVars, netVars, feedVars, gen, shut>>

\* lines 150-151: the wait and the longer delay
ReconnectWait ==
    /\ pc = "sleep_reconnect"
    /\ Wait("drop", reconnect_delay_after_disconnect(current_network_delay))
    /\ pc' = "while"
    /\ UNCHANGED <<ap, accVars, rd, vad, hist, flagVars, failures_before_reset, feedVars, gen, shut>>

\* lines 57-61: _signalHandler, between any two steps of the run (a repeated signal
\* changes nothing).  Lines 40-41 bind SIGINT and SIGTERM to it, so that Ctrl+C
\* raises no KeyboardInterrupt and the branch of lines 153-156 is not entered.
Signal ==
    /\ pc \notin {"start", "done"}
    /\ ~_shutdown_requested
    /\ _shutdown_requested' = TRUE
    /\ is_running' = FALSE
    /\ shut' = [shut EXCEPT !.pending_at_signal = ap.is_in_speech]
    /\ UNCHANGED <<ap, accVars, rd, vad, hist, pc, netVars, feedVars, gen>>

\* the attributes of the transcriber that stop and getStatus use
BroadcastifyTranscriber == [is_running |-> is_running, audio_processor |-> ap]

\* AudioProcessor.stopStreaming
stopStreaming(self) == [self EXCEPT !.is_streaming = FALSE]

\* variant: stop leaves the audio processor alone
stop_without_stopStreaming(self) == [self EXCEPT !.is_running = FALSE]

\* lines 244-249
stop(self) ==
    [self EXCEPT !.is_running = FALSE,
                 !.audio_processor = stopStreaming(self.audio_processor)]

\* lines 251-264, the two entries that depend on the run
getStatus(self) ==
    [is_running |-> self.is_running,
     audio_processor_streaming |-> self.audio_processor.is_streaming]

\* line 191: the loop is over and stop() is called
Stop ==
    /\ pc = "stop"
    /\ is_running' = stop(BroadcastifyTranscriber).is_running
    /\ ap' = stop(BroadcastifyTranscriber).audio_processor
    /\ pc' = "done"
    /\ shut' = [shut EXCEPT !.stops = 1]
    /\ UNCHANGED <<accVars, rd, vad, hist, _shutdown_requested, netVars, feedVars, gen>>

\* stop() is called again on the stopped transcriber
StopAgain ==
    /\ pc = "done"
    /\ shut.stops < MaxStops
    /\ is_running' = stop(BroadcastifyTranscriber).is_running
    /\ ap' = stop(BroadcastifyTranscriber).audio_processor
    /\ shut' = [shut EXCEPT !.stops = @ + 1]
    /\ UNCHANGED <<accVars, rd, vad, hist, pc, _shutdown_requested, netVars, feedVars, gen>>

NextCtl ==
    \/ Start
    \/ WhileTest
    \/ ResolutionStarts
    \/ ResolutionFails
    \/ RetryWait
    \/ ResolutionSucceeds
    \/ ResolutionRaises
    \/ StreamOpens
    \/ \E cause \in {"refused", "unavailable"} : OpenFails(cause)
    \/ StreamAccumulates
    \/ StreamYields
    \/ \E cause \in {"closed", "read_error"} : StreamEnds(cause)
    \/ ForBody
    \/ \E has_text \in BOOLEAN : Transcribe(has_text)
    \/ ConsumeRaises
    \/ HandleError
    \/ RestartWait
    \/ AfterFor
    \/ ReconnectWait
    \/ Signal
    \/ Stop
    \/ StopAgain

\* lines 45-52: the transcriber builds its processor with the default settings
InitCtl == Init /\ ap = DefaultProcessor

SpecCtl == InitCtl /\ [][NextCtl]_vars

---------------------------------------------------------------------------
(* The reconnection loop with feed outages reported to it *)

\* the endpoint reports that the feed is unavailable when the stream is opened, and
\* StreamURLError reaches the loop (audio_processor.py does not define or raise it:
\* the event is taken from the specification); the generator ends on the way
StreamUnavailable ==
    /\ pc = "open"
    /\ consecutive_feed_errors < MaxFeedErrors
    /\ gen' = [StartedGenerator EXCEPT !.at = "ended", !.end_cause = "unavailable",
                                       !.delay_at_end = current_network_delay]
    /\ shut' = OpenedUnderFlag
    /\ pc' = "except_feed"
    /\ UNCHANGED <<ap, accVars, rd, vad, hist, flagVars, netVars, feedVars>>

\* lines 157-163: except StreamURLError
HandleFeedOutage ==
    /\ pc = "except_feed"
    /\ consecutive_feed_errors' = consecutive_feed_errors + 1
    /\ pc' = IF is_running THEN "sleep_feed" ELSE "while"
    /\ UNCHANGED <<ap, accVars, rd, vad, hist, flagVars, netVars, current_feed_outage_delay,
                   feed_run, gen, shut>>

\* variant: a feed outage raises the network delay as well
FeedWait_raising_both ==
    /\ pc = "sleep_feed"
    /\ LET new_delay == feed_outage_delay_after_outage(current_feed_outage_delay)
       IN  /\ feed_run' = Append(feed_run,
                                 [wait |-> current_feed_outage_delay,
                                  slept |-> sleep(current_feed_outage_delay,
                                                  _shutdown_requested),
                                  interrupted |-> _shutdown_requested,
                                  then |-> new_delay,
                                  errors |-> consecutive_feed_errors])
           /\ current_feed_outage_delay' = new_delay
    /\ current_network_delay' = retry_delay_after_resolution_failure(current_network_delay)
    /\ pc' = "while"
    /\ UNCHANGED <<ap, accVars, rd, vad, hist, flagVars, net_run, failures_before_reset,
                   consecutive_feed_errors, gen, shut>>

\* lines 178-180: the wait and the longer feed outage delay
FeedWait ==
    /\ pc = "sleep_feed"
    /\ LET new_delay == feed_outage_delay_after_outage(current_feed_outage_delay)
       IN  /\ feed_run' = Append(feed_run,
                                 [wait |-> current_feed_outage_delay,
                                  slept |-> sleep(current_feed_outage_delay,
                                                  _shutdown_requested),
                                  interrupted |-> _shutdown_requested,
                                  then |-> new_delay,
                                  errors |-> consecutive_feed_errors])
           /\ current_feed_outage_delay' = new_delay
    /\ pc' = "while"
    /\ UNCHANGED <<ap, accVars, rd, vad, hist, flagVars, netVars, consecutive_feed_errors, gen, shut>>

NextOutage ==
    \/ NextCtl
    \/ StreamUnavailable
    \/ HandleFeedOutage
    \/ FeedWait

SpecOutage == InitCtl /\ [][NextOutage]_vars

---------------------------------------------------------------------------
(* The reconnection loop in front of a stream that stays alive *)

\* audio_processor.py lines 178-203: inside next(), the loop of line 178 finds
\* is_streaming set and a window without speech reaches the accumulator while it is
\* Idle; nothing is yielded and the generator goes on reading.  The clock of the
\* model stops at MaxTime, and of the number of these windows the generator keeps
\* the parity.
StreamStaysSilent ==
    /\ pc = "for"
    /\ ap.is_streaming
    /\ ~ap.is_in_speech
    /\ now' = IF now + Sec(2, 0) <= MaxTime THEN now + Sec(2, 0) ELSE now
    /\ ap' = _handleSpeechAccumulation(ap, ChunkAt(now'), FALSE, now', TRUE).ap
    /\ gen' = [gen EXCEPT !.silent = (@ + 1) % 2]
    /\ UNCHANGED <<obsVars, rd, vad, hist, pc, flagVars, netVars, feedVars, shut>>

NextLive ==
    \/ NextCtl
    \/ StreamStaysSilent

\* the steps of runContinuousTranscription that are its own: the tests, the waits,
\* the handlers, and the calls that return (the resolution, the opening of the
\* stream, the transcription)
LoopStep ==
    \/ Start
    \/ WhileTest
    \/ ResolutionStarts
    \/ ResolutionFails
    \/ RetryWait
    \/ ResolutionSucceeds
    \/ ResolutionRaises
    \/ StreamOpens
    \/ \E cause \in {"refused", "unavailable"} : OpenFails(cause)
    \/ ForBody
    \/ \E has_text \in BOOLEAN : Transcribe(has_text)
    \/ ConsumeRaises
    \/ HandleError
    \/ RestartWait
    \/ AfterFor
    \/ ReconnectWait
    \/ Stop

\* a segment that is open is completed by the windows that follow (lines 309 and
\* 351-355), unless the stream ends first; a read that gets no data for 10 s ends
\* it (audio_processor.py line 166)
SegmentCompletes ==
    /\ ap.is_in_speech
    /\ \/ StreamYields
       \/ \E cause \in {"closed", "read_error"} : StreamEnds(cause)

\* the loop is never stalled, and a stream that is open goes on delivering windows;
\* whether a window holds speech and whether the source closes is up to the stream
SpecLive ==
    /\ InitCtl
    /\ [][NextLive]_vars
    /\ WF_vars(LoopStep)
    /\ WF_vars(StreamStaysSilent)
    /\ WF_vars(SegmentCompletes)

---------------------------------------------------------------------------

(* AudioProcessor.streamAudioChunks, chunk by chunk *)

\* the settings both processors are built with
chunk_duration == Sec(2, 0)

buffer_duration == Sec(0, 1)

\* the bytes numbered first .. last of the stream
Bytes(first, last) == [i \in 1..(last - first + 1) |-> first + i - 1]

\* variant: a buffer that cannot be decoded counts as an empty window
decode_failure_gives_no_samples(audio_data, decode_ok) ==
    IF decode_ok THEN Some(audio_data) ELSE Some(<<>>)

\* AudioProcessor._processAudioBuffer: the samples decoded from the buffer (one for
\* each byte, named after it), or None when decoding raises
_processAudioBuffer(audio_data, decode_ok) ==
    IF decode_ok THEN Some(audio_data) ELSE None

\* line 206: int(bytes_collected * (self.buffer_duration / self.chunk_duration))
overlap_bytes(bytes_collected) ==
    (bytes_collected * buffer_duration) \div chunk_duration

\* variant: the head of the buffer is kept instead of its tail
ResetKeepingHead(r) ==
    LET remaining_data == SubSeq(r.audio_data, 1, overlap_bytes(r.bytes_collected))
    IN  [r EXCEPT !.audio_data = remaining_data,
                  !.bytes_collected = Len(remaining_data),
                  !.last_process_time = r.current_time]

\* lines 205-212: the buffer is cut down to its overlap tail
ResetWithOverlap(r) ==
    LET start == Max(0, r.bytes_collected - overlap_bytes(r.bytes_collected))
        remaining_data == SubSeq(r.audio_data, start + 1, Len(r.audio_data))
    IN  [r EXCEPT !.audio_data = remaining_data,
                  !.bytes_collected = Len(remaining_data),
                  !.last_process_time = r.current_time]

\* lines 214-226: the loop over the chunks is over for the reason cause (an exception,
\* if any, is caught and printed); the finally block flushes the accumulator and
\* either yields the final message or ends the generator
Finish(r, cause) ==
    LET f == flush(ap, TRUE)
    IN  /\ op' = "flush"
        /\ arg' = NoArg
        /\ pre' = ap
        /\ ret' = f.ret
        /\ raised' = f.raised
        /\ prev' = [op |-> op, ret |-> ret]
        /\ IF f.ret # None
           THEN /\ ap' = [f.ap EXCEPT !.is_streaming = TRUE]
                /\ rd' = [r EXCEPT !.pc = "final", !.cause = cause,
                                   !.emitted = @ + 1, !.emitted_at_end = r.emitted,
                                   !.window = "none"]
           ELSE /\ ap' = f.ap
                /\ rd' = [r EXCEPT !.pc = "ended", !.cause = cause,
                                   !.emitted_at_end = r.emitted, !.window = "none"]

\* streamAudioChunks can be called again: the generator of the connection
\* before is over
CanReconnect == rd.pc \in {"ended", "closed"} /\ rd.connection < MaxConnections

\* lines 149-163: the locals of a new generator; the connection is numbered and
\* the way the one before ended is kept
NewReader ==
    [NoReader EXCEPT !.connection = rd.connection + 1,
                     !.opened_at = now,
                     !.prev_end = IF rd.pc = "closed" THEN "abandoned" ELSE rd.cause]

\* lines 162-176: the generator starts and the stream is opened
ReaderOpens ==
    /\ rd.pc = "idle"
    /\ ap' = [ap EXCEPT !.is_streaming = TRUE]
    /\ rd' = [NewReader EXCEPT !.pc = "loop", !.last_process_time = now]
    /\ UNCHANGED <<accVars, ctlVars, vad, hist>>

\* lines 162-167, 214-226: requests.get or raise_for_status raises
ReaderOpenFails ==
    /\ rd.pc = "idle"
    /\ Finish(NewReader, "refused")
    /\ UNCHANGED <<now, seg_log, ctlVars, vad, hist>>

\* lines 162-176: streamAudioChunks is called again and the stream is opened
ReaderReopens ==
    /\ CanReconnect
    /\ ap' = [ap EXCEPT !.is_streaming = TRUE]
    /\ rd' = [NewReader EXCEPT !.pc = "loop", !.last_process_time = now]
    /\ UNCHANGED <<accVars, ctlVars, vad, hist>>

\* lines 162-167, 214-226: streamAudioChunks is called again and requests.get or
\* raise_for_status raises
ReaderReopenFails ==
    /\ CanReconnect
    /\ Finish(NewReader, "refused")
    /\ UNCHANGED <<now, seg_log, ctlVars, vad, hist>>

\* lines 178-212: one chunk of n bytes arrives, step half seconds after the latest
\* reading of the clock; decode_ok and has_speech are the outcomes of
\* _processAudioBuffer and detectSpeech if the chunk completes a window
ReadChunk(n, step, decode_ok, has_speech) ==
    /\ rd.pc = "loop"
    /\ rd.bytes_read + n <= MaxBytes
    /\ now + step <= MaxTime
    /\ Len(ap.speech_segments) < MaxWindows
    /\ (has_speech /\ ~ap.is_in_speech) => now + step <= MaxStart
    /\ IF ~ap.is_streaming
       THEN /\ Finish(rd, "stopped")
            /\ UNCHANGED <<now, seg_log>>
       ELSE IF n = 0
       THEN UNCHANGED <<ap, accVars, rd, vad, hist>>
       ELSE LET t == now + step
                r1 == [rd EXCEPT !.audio_data = @ \o Bytes(rd.bytes_read + 1,
                                                            rd.bytes_read + n),
                                 !.bytes_collected = @ + n,
                                 !.bytes_read = @ + n,
                                 !.current_time = t,
                                 !.window_data = <<>>,
                                 !.window = "none"]
                audio_chunk == _processAudioBuffer(r1.audio_data, decode_ok)
            IN  /\ now' = t
                /\ IF t - rd.last_process_time < chunk_duration
                   THEN /\ rd' = r1
                        /\ UNCHANGED <<ap, obsVars>>
                   ELSE IF audio_chunk = None
                   THEN /\ rd' = ResetWithOverlap([r1 EXCEPT
                                      !.window = "skipped",
                                      !.window_data = r1.audio_data,
                                      !.decode_ok = decode_ok])
                        /\ op' = "skip"
                        /\ arg' = NoArg
                        /\ pre' = ap
                        /\ ret' = None
                        /\ raised' = FALSE
                        /\ prev' = [op |-> op, ret |-> ret]
                        /\ UNCHANGED <<ap, seg_log>>
                   ELSE LET a == [audio_chunk |-> audio_chunk[1],
                                  has_speech |-> has_speech,
                                  current_time |-> t]
                            h == _handleSpeechAccumulation(ap, a.audio_chunk,
                                                           has_speech, t, TRUE)
                            r2 == [r1 EXCEPT !.window = "observed",
                                             !.window_data = r1.audio_data,
                                             !.decode_ok = decode_ok]
                        IN  /\ op' = "observe"
                            /\ arg' = a
                            /\ pre' = ap
                            /\ ap' = h.ap
                            /\ ret' = h.ret
                            /\ raised' = h.raised
                            /\ prev' = [op |-> op, ret |-> ret]
                            /\ seg_log' = IF ap.is_in_speech THEN Append(seg_log, a)
                                          ELSE IF has_speech THEN <<a>> ELSE <<>>
                            /\ rd' = IF h.ret # None
                                     THEN [r2 EXCEPT !.pc = "yielded", !.emitted = @ + 1]
                                     ELSE ResetWithOverlap(r2)
    /\ UNCHANGED <<ctlVars, vad, hist>>

\* lines 203-212: the consumer asks for the next message; the generator goes on
\* after the yield of line 203
Resume ==
    /\ rd.pc = "yielded"
    /\ rd' = [ResetWithOverlap(rd) EXCEPT !.pc = "loop"]
    /\ UNCHANGED <<ap, accVars, ctlVars, vad, hist>>

\* lines 178, 214-226: iter_content is exhausted (cause "closed") or raises (cause
\* "error")
SourceEnds(cause) ==
    /\ rd.pc = "loop"
    /\ Finish(rd, cause)
    /\ UNCHANGED <<now, seg_log, ctlVars, vad, hist>>

\* lines 224-226: the consumer asks for the next message after the final one
ResumeFinal ==
    /\ rd.pc = "final"
    /\ ap' = [ap EXCEPT !.is_streaming = FALSE]
    /\ rd' = [rd EXCEPT !.pc = "ended"]
    /\ UNCHANGED <<accVars, ctlVars, vad, hist>>

\* the consumer drops the generator at a message it was handed (a break or an
\* exception in the for loop over it): the generator is closed where it is
\* suspended, at line 203 or at line 224
Abandon ==
    /\ rd.pc \in {"yielded", "final"}
    /\ ap' = close(ap, IF rd.pc = "final" THEN "final" ELSE "yield")
    /\ rd' = [rd EXCEPT !.pc = "closed"]
    /\ UNCHANGED <<accVars, ctlVars, vad, hist>>

\* lines 273-276: stopStreaming, called while the generator is alive
StopStreaming ==
    /\ rd.pc \in {"loop", "yielded"}
    /\ ap.is_streaming
    /\ ap' = [ap EXCEPT !.is_streaming = FALSE]
    /\ UNCHANGED <<accVars, ctlVars, rd, vad, hist>>

NextReader ==
    \/ ReaderOpens
    \/ ReaderOpenFails
    \/ \E n \in {0, 1, MaxChunk}, step \in {Sec(0, 1), Sec(2, 0)},
          decode_ok \in BOOLEAN, has_speech \in BOOLEAN :
          ReadChunk(n, step, decode_ok, has_speech)
    \/ Resume
    \/ \E cause \in {"closed", "error"} : SourceEnds(cause)
    \/ ResumeFinal
    \/ Abandon
    \/ StopStreaming

SpecReader == Init /\ [][NextReader]_vars

\* one connection after the other on the same processor, every chunk one byte
\* that completes a window
NextReconnect ==
    \/ ReaderOpens
    \/ ReaderOpenFails
    \/ ReaderReopens
    \/ ReaderReopenFails
    \/ \E decode_ok \in BOOLEAN, has_speech \in BOOLEAN :
          ReadChunk(1, Sec(2, 0), decode_ok, has_speech)
    \/ Resume
    \/ \E cause \in {"closed", "error"} : SourceEnds(cause)
    \/ ResumeFinal
    \/ Abandon
    \/ StopStreaming

SpecReconnect == Init /\ [][NextReconnect]_vars

---------------------------------------------------------------------------
(* VoiceActivityDetector: the classifier of one window.  A window is kept
   run-length encoded, a sequence of runs [count, amplitude] standing for
   count samples of that amplitude; amplitudes, energies and energy thresholds
   are in thousandths; the mean spectral centroid librosa computes for it is an input in Hz, None when
   the analysis raises. *)

MaxRuns == 2

RunLengths == {1, 3199, 7999, 32000}

Amplitudes == {-11, 0, 3, 4, 10, 11}

Centroids == {None, Some(0), Some(1000), Some(1001), Some(2000), Some(2001)}

Runs == [count : RunLengths, amplitude : Amplitudes]

Windows == UNION {[1..k -> Runs] : k \in 0..MaxRuns}

\* VoiceActivityDetector.sample_rate
sample_rate == 16000

VoiceActivityDetector(energy_threshold, spectral_threshold, min_speech_duration) ==
    [energy_threshold |-> energy_threshold,
     spectral_threshold |-> spectral_threshold,
     min_speech_duration |-> min_speech_duration]

\* the detector built with the constructor's defaults
DefaultDetector == VoiceActivityDetector(Whole(10), Frac(1, 2), Frac(1, 2))

\* the detector AudioProcessor.__init__ builds
ProcessorDetector == VoiceActivityDetector(Whole(3), Frac(1, 4), Frac(1, 5))

RECURSIVE len(_)
len(audio) ==
    IF audio = <<>> THEN 0 ELSE Head(audio).count + len(Tail(audio))

RECURSIVE sum_of_squares(_)
\* np.sum(audio ** 2)
sum_of_squares(audio) ==
    IF audio = <<>> THEN 0
    ELSE Head(audio).count * Head(audio).amplitude * Head(audio).amplitude
         + sum_of_squares(Tail(audio))

\* np.mean(audio ** 2)
mean_square(audio) == Frac(sum_of_squares(audio), len(audio))

\* variant: energy equal to the threshold counts as energy
has_energy_or_equal(self, audio) ==
    Leq(Times(self.energy_threshold, self.energy_threshold.n, self.energy_threshold.d),
        mean_square(audio))

\* energy > self.energy_threshold, energy the square root of mean_square:
\* both sides are non-negative, so the squares compare the same way
has_energy(self, audio) ==
    ~Leq(mean_square(audio),
         Times(self.energy_threshold, self.energy_threshold.n, self.energy_threshold.d))

\* variant: the neutral value is normalized like a computed centroid
neutral_centroid_divided(spectral_centroid) ==
    IF spectral_centroid = None
    THEN Frac(1, 2 * 4000)
    ELSE Frac(spectral_centroid[1], 4000)

\* spectral_centroid / 4000.0, or the fallback 0.5 when the analysis raised
normalized_centroid(spectral_centroid) ==
    IF spectral_centroid = None
    THEN Frac(1, 2)
    ELSE Frac(spectral_centroid[1], 4000)

has_speech_spectrum(self, spectral_centroid) ==
    ~Leq(normalized_centroid(spectral_centroid), self.spectral_threshold)

\* len(audio) / self.sample_rate
duration(audio) == Frac(len(audio), sample_rate)

sufficient_duration(self, audio) == Leq(self.min_speech_duration, duration(audio))

\* variant: the decision leaves the energy out
detectSpeech_ignoring_energy(self, audio, spectral_centroid) ==
    [ret |-> IF len(audio) = 0 THEN FALSE
             ELSE /\ has_speech_spectrum(self, spectral_centroid)
                  /\ sufficient_duration(self, audio),
     raised |-> FALSE]

\* what detectSpeech returns, and whether it raised: except Exception takes
\* whatever the spectral analysis raises
detectSpeech(self, audio, spectral_centroid) ==
    [ret |-> IF len(audio) = 0 THEN FALSE
             ELSE /\ has_energy(self, audio)
                  /\ has_speech_spectrum(self, spectral_centroid)
                  /\ sufficient_duration(self, audio),
     raised |-> FALSE]

\* one window is classified
DetectSpeech(self, audio, spectral_centroid) ==
    /\ ~vad.called
    /\ vad' = [called |-> TRUE, self |-> self, audio |-> audio,
               spectral_centroid |-> spectral_centroid,
               ret |-> detectSpeech(self, audio, spectral_centroid).ret,
               raised |-> detectSpeech(self, audio, spectral_centroid).raised]
    /\ UNCHANGED <<ap, accVars, ctlVars, rd, hist>>

NextVad ==
    \E self \in {DefaultDetector, ProcessorDetector} :
        \E audio \in Windows :
            \E spectral_centroid \in Centroids :
                DetectSpeech(self, audio, spectral_centroid)

SpecVad == Init /\ [][NextVad]_vars

----------------------------------------------------------------------------

(* Vocabulary of the claims about the accumulator *)

\* the latest operation observed a non-speech window while Accumulating
ObservedSilence == op = "observe" /\ ~arg.has_speech /\ pre.is_in_speech

\* now - lastSpeechTime and now - speechStartTime at that observation
silenceDuration == arg.current_time - pre.last_speech_time

speechDuration == arg.current_time - pre.speech_start_time

\* the bump of the adaptive threshold, as the specification states it
StatedBump ==
    IF speechDuration > Sec(15, 0) THEN Sec(2, 0)
    ELSE IF speechDuration > Sec(8, 0) THEN Sec(1, 1)
    ELSE IF speechDuration > Sec(4, 0) THEN Sec(1, 0)
    ELSE Sec(0, 1)

\* speechWindowCount / max(1, speechDuration) < 0.8 with speechDuration in half
\* seconds: count / (max(2, d) / 2) < 8 / 10  iff  10 * count < 4 * max(2, d)
StatedSparse == 10 * pre.speech_chunk_count < 4 * Max(2, speechDuration)

StatedEffective ==
    pre.silence_threshold + StatedBump + (IF StatedSparse THEN Sec(1, 0) ELSE 0)

RECURSIVE SamplesOf(_)
\* the samples of the logged windows, in order of arrival
SamplesOf(log) ==
    IF log = <<>> THEN <<>>
    ELSE SamplesOf(SubSeq(log, 1, Len(log) - 1)) \o log[Len(log)].audio_chunk

\* the open segment so far consists of speech windows only
AllSpeechRun ==
    /\ op = "observe"
    /\ seg_log # <<>>
    /\ \A i \in 1..Len(seg_log) : seg_log[i].has_speech

---------------------------------------------------------------------------
(* Claims *)

\* C1: the window list is non-empty if and only if the accumulator is Accumulating,
\* and an operation empties the list exactly when it returns the accumulator to Idle.
C1_WindowsIffAccumulating ==
    /\ (ap.speech_segments # <<>>) <=> ap.is_in_speech
    /\ (pre.speech_segments # <<>> /\ ap.speech_segments = <<>>)
          <=> (pre.is_in_speech /\ ~ap.is_in_speech)

C1_Witness ==
    /\ op = "observe"
    /\ Len(pre.speech_segments) >= 2
    /\ pre.is_in_speech
    /\ ap.speech_segments = <<>>
    /\ ~ap.is_in_speech

C5_FewSpeechWindows ==
    /\ (/\ op = "observe"
        /\ pre.silence_threshold = Sec(1, 1)
        /\ pre.min_message_duration = Sec(1, 0)
        /\ Len(seg_log) = 2
        /\ seg_log[1].has_speech
        /\ ~seg_log[2].has_speech
        /\ seg_log[2].current_time - seg_log[1].current_time = Sec(2, 0))
          => (ret = None /\ ap.is_in_speech)
    /\ (/\ pre.is_in_speech
        /\ pre.speech_chunk_count < 2
        /\ ~(op = "observe" /\ arg.has_speech)
        /\ ~ap.is_in_speech)
          => \/ op = "flush"
             \/ ObservedSilence /\ silenceDuration >= 3 * pre.silence_threshold

\* one speech window, silence past the adaptive threshold, not finalized
C5_Witness ==
    /\ ObservedSilence
    /\ pre.speech_chunk_count = 1
    /\ silenceDuration >= StatedEffective
    /\ speechDuration >= pre.min_message_duration
    /\ ret = None
    /\ ap.is_in_speech

\* C6: every message returned by observe or flush is the in-order concatenation of
\* exactly the windows handed to the accumulator since the speech window that began
\* the segment, through the window that triggered finalization.
C6_MessageIsConcatenation ==
    (ret # None) =>
        /\ seg_log # <<>>
        /\ seg_log[1].has_speech
        /\ op = "observe" => seg_log[Len(seg_log)] = arg
        /\ ret = Some(SamplesOf(seg_log))

\* a message of speech and non-speech windows, none of them empty
C6_Witness ==
    /\ ret # None
    /\ Len(seg_log) >= 3
    /\ \E i \in 1..Len(seg_log) : ~seg_log[i].has_speech
    /\ \A i \in 1..Len(seg_log) : seg_log[i].audio_chunk # <<>>

\* C7: a flush that directly follows a flush returns nothing and leaves the
\* accumulator unchanged, Idle and without windows.
C7_SecondFlushReturnsNothing ==
    (op = "flush" /\ prev.op = "flush") =>
        /\ ret = None
        /\ ap = pre
        /\ ~ap.is_in_speech
        /\ ap.speech_segments = <<>>

\* the first of the two flushes returned a message
C7_Witness ==
    /\ op = "flush"
    /\ prev.op = "flush"
    /\ prev.ret # None

\* C8: a call that returns a message leaves the accumulator Idle with no windows and
\* speechWindowCount = 0; a call that leaves it Accumulating returns no message.
C8_MessageOnlyByFinalization ==
    /\ (ret # None) =>
          /\ ~ap.is_in_speech
          /\ ap.speech_segments = <<>>
          /\ ap.speech_chunk_count = 0
    /\ ap.is_in_speech => ret = None

C8_Witness ==
    /\ op = "observe"
    /\ ret # None
    /\ pre.speech_chunk_count >= 2

\* C9: when concatenation fails during finalize, no message is returned and the
\* accumulator is back at the Idle defaults, speechStartTime and lastSpeechTime
\* included.
C9_FailedFinalizeResetsAll ==
    raised =>
        /\ ret = None
        /\ ~ap.is_in_speech
        /\ ap.speech_segments = <<>>
        /\ ap.speech_chunk_count = 0
        /\ ap.speech_start_time = 0
        /\ ap.last_speech_time = 0

---------------------------------------------------------------------------
(* Vocabulary of the claims about the reconnection delays *)

RECURSIVE Pow(_, _)
Pow(b, k) == IF k = 0 THEN 1 ELSE b * Pow(b, k - 1)

\* delay = min(10 * 1.5^k, 300), by cross multiplication
IsBaseTimesOneAndAHalfTo(delay, k) ==
    IF 10 * Pow(3, k) >= 300 * Pow(2, k)
    THEN delay.n = 300 /\ delay.d = 1
    ELSE delay.n * Pow(2, k) = 10 * Pow(3, k) * delay.d

\* after = min(before * 1.5, 300), by cross multiplication
IsOneAndAHalfTimes(after, before) ==
    IF 3 * before.n >= 600 * before.d
    THEN after.n = 300 /\ after.d = 1
    ELSE 2 * after.n * before.d = 3 * before.n * after.d

AtMost300(delay) == delay.n <= 300 * delay.d

OnlyFailures == \A i \in 1..Len(net_run) : net_run[i].kind = "failure"

---------------------------------------------------------------------------
(* Claims about the reconnection delays *)

---------------------------------------------------------------------------
(* Claims about the reconnection loop *)

\* the loop has dealt with the end of a connection whose endpoint was unavailable
\* when the stream was opened, and no shutdown was requested
HandledUnavailable ==
    /\ gen.end_cause = "unavailable"
    /\ pc = "while"
    /\ ~_shutdown_requested

\* C11: when the endpoint reports unavailability (HTTP 404 / 503) on opening the
\* stream, the loop increments the consecutive feed outage counter, waits the feed
\* outage delay, sets it to min(delay * 1.5, 1800), and applies no network backoff.
C11_UnavailableIsFeedOutage ==
    HandledUnavailable =>
        /\ consecutive_feed_errors = gen.feed_errors_at_open + 1
        /\ feed_run # <<>>
        /\ feed_run[Len(feed_run)].wait = gen.feed_delay_at_open
        /\ current_feed_outage_delay =
              MinOf(Times(gen.feed_delay_at_open, 3, 2), Whole(1800))
        /\ net_run = <<>>
        /\ current_network_delay = gen.delay_at_end

\* a step in which a transcription that returned text is completed
TranscribedText ==
    /\ pc = "transcribe"
    /\ pc' \in {"for", "after_for"}
    /\ gen'.transcribed = "text"

\* C12: a transcription that returns text resets the feed outage delay to 60 s and
\* the consecutive feed outage counter to 0; every other step (reconnecting, a
\* successful resolution, a network failure, an empty or failed transcription) leaves
\* both as they were, and the handling of a feed outage only raises them.
C12_FeedResetOnlyByText ==
    [][ /\ TranscribedText =>
              /\ current_feed_outage_delay' = [n |-> 60, d |-> 1]
              /\ consecutive_feed_errors' = 0
        /\ ~TranscribedText =>
              \/ UNCHANGED <<current_feed_outage_delay, consecutive_feed_errors>>
              \/ /\ pc = "except_feed"
                 /\ consecutive_feed_errors' = consecutive_feed_errors + 1
                 /\ UNCHANGED current_feed_outage_delay
              \/ /\ pc = "sleep_feed"
                 /\ Leq(current_feed_outage_delay, current_feed_outage_delay')
                 /\ UNCHANGED consecutive_feed_errors
      ]_vars

\* after two or more feed outages and a network failure, a stream was opened and a
\* transcription with text put the delay and the counter back
C12_Witness ==
    /\ gen.transcribed = "text"
    /\ gen.feed_errors_at_open >= 2
    /\ gen.feed_delay_at_open = [n |-> 135, d |-> 1]
    /\ failures_before_reset >= 1
    /\ current_feed_outage_delay = [n |-> 60, d |-> 1]
    /\ consecutive_feed_errors = 0

\* the loop has dealt with the end of a connection whose message sequence ended
\* because the source closed, and no shutdown was requested
HandledClosed ==
    /\ gen.end_cause = "closed"
    /\ gen.at = "ended"
    /\ pc = "while"
    /\ ~_shutdown_requested

\* after = min(before * 1.2, 300), by cross multiplication
IsOneAndAFifthTimes(after, before) ==
    IF 6 * before.n >= 1500 * before.d
    THEN after.n = 300 /\ after.d = 1
    ELSE 5 * after.n * before.d = 6 * before.n * after.d

\* C13: when the message sequence of a connection ends without an exception, the loop
\* waits the network delay that was current when the sequence ended (it is not reset
\* in between), then sets the delay to min(delay * 1.2, 300), and goes on to the next
\* connection attempt.
C13_StreamEndIsNetworkFailure ==
    [][ /\ HandledClosed' =>
              /\ Len(net_run') = 1
              /\ net_run'[1].kind = "drop"
              /\ net_run'[1].wait = gen'.delay_at_end
              /\ net_run'[1].slept = net_run'[1].wait
              /\ IsOneAndAFifthTimes(net_run'[1].then, net_run'[1].wait)
              /\ current_network_delay' = net_run'[1].then
        /\ (pc = "while" /\ is_running /\ pc' # pc) => pc' = "extract"
        /\ (pc = "extract" /\ pc' # pc) => pc' = "resolving"
      ]_vars

\* a stream was opened, a message was transcribed, the source closed, and the loop
\* waited 10 s and set the delay to 12 s
C13_Witness ==
    /\ HandledClosed
    /\ gen.opened
    /\ gen.transcribed = "text"
    /\ net_run[1].wait = [n |-> 10, d |-> 1]
    /\ net_run[1].then = [n |-> 12, d |-> 1]
    /\ is_running

\* C14: the network delay is multiplied by 1.5 after a failure that happens while the
\* stream is still being resolved, and by 1.2 only after a stream was opened and then
\* dropped; a failure to open the stream is not given the multiplier 1.2.
C14_MultiplierByStage ==
    \A i \in 1..Len(net_run) :
        /\ net_run[i].kind = "drop" =>
              /\ net_run[i].opened
              /\ IsOneAndAFifthTimes(net_run[i].then, net_run[i].wait)
        /\ ~net_run[i].opened => IsOneAndAHalfTimes(net_run[i].then, net_run[i].wait)

Sleeps == {"sleep_retry", "sleep_restart", "sleep_reconnect"}

\* C15: the loop is left only after a shutdown request; a resolution failure, the end
\* of a stream (read error, normal end, unavailable feed), or an exception in the loop
\* body leads to a wait, and the wait to the while test and another connection
\* attempt.
C15_LoopEndsOnlyOnShutdown ==
    [][ /\ pc' \in {"stop", "done"} => _shutdown_requested'
        /\ (pc = "resolving" /\ pc' \notin {pc, "open"} /\ ~_shutdown_requested')
              => pc' \in {"sleep_retry", "except"}
        /\ (pc = "after_for" /\ pc' # pc /\ ~_shutdown_requested')
              => pc' = "sleep_reconnect"
        /\ (pc = "except" /\ pc' # pc /\ ~_shutdown_requested')
              => pc' = "sleep_restart"
        /\ (pc \in Sleeps /\ pc' # pc) => pc' = "while"
        /\ (pc = "while" /\ pc' # pc /\ ~_shutdown_requested') => pc' = "extract"
      ]_vars

\* after a dropped stream, an exception and a failed resolution the loop is
\* resolving the stream again
C15_Witness ==
    /\ pc = "resolving"
    /\ is_running
    /\ Len(net_run) = 3
    /\ net_run[1].kind = "drop"
    /\ net_run[2].kind = "failure"
    /\ net_run[3].kind = "failure"

\* C16: on shutdown the message being consumed is finished, audio that was
\* accumulated but not finalized is flushed as a final message and delivered to the
\* consumer before the loop exits, and no message is dropped.
C16_ShutdownDeliversPendingAudio ==
    (pc = "done" /\ shut.pending_at_signal) =>
        /\ ~shut.dropped
        /\ ~ap.is_in_speech
        /\ ap.speech_segments = <<>>

\* C17: once the shutdown flag is set, the loop starts no stream resolution, opens no
\* stream and hands no further message to transcription.
C17_NothingStartedAfterFlag ==
    shut.after_flag = {}

\* C18: a shutdown requested during a backoff wait ends the wait early: the time
\* slept is less than the delay.
C18_SignalEndsWaitEarly ==
    \A i \in 1..Len(net_run) :
        net_run[i].interrupted =>
            /\ Leq(net_run[i].slept, net_run[i].wait)
            /\ net_run[i].slept # net_run[i].wait

---------------------------------------------------------------------------
(* Claims about the reader *)

\* the latest step of the reader was the end of its loop over the chunks
LoopOver == op = "flush" /\ rd.pc \in {"final", "ended", "closed"}

DecodeFailed == rd.window # "none" /\ ~rd.decode_ok

\* C20: when decoding fails, the reader emits nothing for that window, calls neither
\* the classifier nor the accumulator (the accumulator is unchanged), cuts the byte
\* buffer down to its overlap tail as for any window, and goes on reading.
C20_DecodeFailureSkipsWindow ==
    DecodeFailed =>
        /\ rd.window = "skipped"
        /\ op = "skip"
        /\ ret = None
        /\ [ap EXCEPT !.is_streaming = pre.is_streaming] = pre
        /\ rd.pc = "loop"
        /\ LET kept == Len(rd.window_data) \div 4
           IN  /\ rd.audio_data = SubSeq(rd.window_data,
                                         Len(rd.window_data) - kept + 1,
                                         Len(rd.window_data))
               /\ rd.bytes_collected = kept
        /\ rd.last_process_time = rd.current_time

\* the failure happened while a message was accumulating and the buffer held four
\* bytes or more, so that the tail kept is not empty
C20_Witness ==
    /\ DecodeFailed
    /\ pre.is_in_speech
    /\ ap.is_in_speech
    /\ Len(rd.window_data) >= 4
    /\ rd.audio_data # <<>>

\* the latest chunk completed a window and the reader is back in its loop
WindowDone == rd.window # "none" /\ rd.pc = "loop"

----------------------------------------------------------------------------
(* Vocabulary of the claims about the classifier, in whole numbers *)

SamplesIn(audio) == len(audio)

\* the squared RMS energy exceeds the squared threshold
EnergyAbove(t, audio) ==
    sum_of_squares(audio) * t.d * t.d > t.n * t.n * SamplesIn(audio)

\* hz / 4000 exceeds the threshold
CentroidAbove(t, hz) == hz * t.d > 4000 * t.n

\* 0.5 exceeds the threshold
NeutralAbove(t) == t.d > 2 * t.n

\* samples / 16000 is at least the minimum
LongEnough(t, audio) == SamplesIn(audio) * t.d >= 16000 * t.n

AllZero(audio) == \A i \in 1..Len(audio) : audio[i].amplitude = 0

\* C22: for a non-empty window detectSpeech returns true exactly when the
\* energy is above energy_threshold, the normalized centroid is above
\* spectral_threshold and the duration is at least min_speech_duration; for
\* the empty window it returns false
C22_ThreeComparisons ==
    vad.called =>
        IF SamplesIn(vad.audio) = 0
        THEN vad.ret = FALSE
        ELSE vad.ret =
                (/\ EnergyAbove(vad.self.energy_threshold, vad.audio)
                 /\ IF vad.spectral_centroid = None
                    THEN NeutralAbove(vad.self.spectral_threshold)
                    ELSE CentroidAbove(vad.self.spectral_threshold,
                                       vad.spectral_centroid[1])
                 /\ LongEnough(vad.self.min_speech_duration, vad.audio))

\* a window of exactly the minimum duration, just above both thresholds, is speech
C22_Witness ==
    /\ vad.called /\ vad.ret
    /\ vad.self = ProcessorDetector
    /\ SamplesIn(vad.audio) = 3200
    /\ vad.spectral_centroid = Some(1001)
    /\ \E i \in 1..Len(vad.audio) : vad.audio[i].amplitude = 3

\* C23: detectSpeech returns false for every window whose energy does not
\* exceed energy_threshold, the all-zero windows among them, whatever the
\* length and the centroid
C23_NoEnergyNoSpeech ==
    (vad.called /\ ~EnergyAbove(vad.self.energy_threshold, vad.audio)) =>
        vad.ret = FALSE

\* a long all-zero window with a high centroid is classified as non-speech
C23_Witness ==
    /\ vad.called /\ ~vad.ret
    /\ vad.audio # <<>> /\ AllZero(vad.audio)
    /\ SamplesIn(vad.audio) >= 32000
    /\ vad.spectral_centroid = Some(2001)
    /\ vad.self = ProcessorDetector

\* C24: when the spectral analysis fails detectSpeech raises nothing and
\* decides with 0.5 itself as the normalized centroid
C24_NeutralCentroidOnFailure ==
    (vad.called /\ vad.spectral_centroid = None /\ SamplesIn(vad.audio) > 0) =>
        /\ ~vad.raised
        /\ vad.ret =
              (/\ EnergyAbove(vad.self.energy_threshold, vad.audio)
               /\ NeutralAbove(vad.self.spectral_threshold)
               /\ LongEnough(vad.self.min_speech_duration, vad.audio))

\* the analysis failed and the window is speech, 0.5 being above 0.25
C24_Witness ==
    /\ vad.called /\ vad.spectral_centroid = None
    /\ vad.self = ProcessorDetector
    /\ vad.ret /\ ~vad.raised

----------------------------------------------------------------------------
(* Vocabulary of the claims about stop *)

BothOff(self) == ~self.is_running /\ ~self.audio_processor.is_streaming

ReportsBothOff(status) == ~status.is_running /\ ~status.audio_processor_streaming

\* C25: stop() called in any state of the loop, once or again on its own
\* result, leaves is_running and is_streaming false, and getStatus then
\* reports both as false
C25_StopIdempotent ==
    LET once == stop(BroadcastifyTranscriber)
        again == stop(once)
    IN  /\ BothOff(once)
        /\ again = once
        /\ ReportsBothOff(getStatus(once))
        /\ ReportsBothOff(getStatus(again))
        /\ shut.stops >= 1 =>
              /\ BothOff(BroadcastifyTranscriber)
              /\ ReportsBothOff(getStatus(BroadcastifyTranscriber))
              /\ stop(BroadcastifyTranscriber) = BroadcastifyTranscriber

\* stop() was called three times after a run that broke out at the final yield,
\* which leaves is_streaming set until stop() clears it
C25_Witness ==
    /\ pc = "done" /\ shut.stops = 3
    /\ BothOff(BroadcastifyTranscriber)
    /\ gen.at = "closed" /\ gen.end_cause # "none" /\ shut.dropped

----------------------------------------------------------------------------
(* Vocabulary of the frame claims about the accumulator *)

\* the latest operation observed a window of that kind in that status
Observed(has_speech, is_in_speech) ==
    /\ op = "observe"
    /\ arg.has_speech = has_speech
    /\ pre.is_in_speech = is_in_speech

\* the named accumulation fields are as they were before the operation
SameTimesAndCount ==
    /\ ap.speech_start_time = pre.speech_start_time
    /\ ap.last_speech_time = pre.last_speech_time
    /\ ap.speech_chunk_count = pre.speech_chunk_count

\* C26: a non-speech window observed while Idle returns no message and leaves
\* the status, the windows, both times and the speech window count as they
\* were, so a message holds only windows observed since its segment began
C26_IdleSilenceIsNoOp ==
    /\ Observed(FALSE, FALSE) =>
          /\ ret = None
          /\ ap.is_in_speech = pre.is_in_speech
          /\ ap.speech_segments = pre.speech_segments
          /\ SameTimesAndCount
    /\ (op = "observe" /\ ret # None) => ret = Some(SamplesOf(seg_log))

\* a non-speech window with samples is observed while Idle, after a message
C26_Witness ==
    /\ Observed(FALSE, FALSE)
    /\ arg.audio_chunk # <<>>
    /\ prev.ret # None
    /\ ~ap.is_in_speech

\* C27: a speech window observed while Idle returns no message and starts a
\* segment holding that window alone, with both times at the window's time
\* and a count of one, whatever the fields held before
C27_SpeechStartsSegment ==
    Observed(TRUE, FALSE) =>
        /\ ret = None
        /\ ap.is_in_speech
        /\ ap.speech_segments = <<arg.audio_chunk>>
        /\ ap.speech_start_time = arg.current_time
        /\ ap.last_speech_time = arg.current_time
        /\ ap.speech_chunk_count = 1

\* the segment starts on an accumulator whose times were left over from a
\* failed concatenation
C27_Witness ==
    /\ Observed(TRUE, FALSE)
    /\ pre.speech_start_time # 0
    /\ pre.last_speech_time # 0
    /\ ap.speech_start_time = arg.current_time
    /\ ap.is_in_speech

\* C28: a speech window observed while Accumulating before the maximum speech
\* duration is reached returns no message, goes to the end of the windows,
\* adds one to the count, sets lastSpeechTime and keeps speechStartTime
C28_SpeechContinuesSegment ==
    (Observed(TRUE, TRUE)
        /\ arg.current_time - pre.speech_start_time < pre.max_speech_duration) =>
        /\ ret = None
        /\ ap.is_in_speech
        /\ ap.speech_segments = Append(pre.speech_segments, arg.audio_chunk)
        /\ ap.speech_chunk_count = pre.speech_chunk_count + 1
        /\ ap.last_speech_time = arg.current_time
        /\ ap.speech_start_time = pre.speech_start_time

\* a speech window joins a segment that already holds speech and silence
C28_Witness ==
    /\ Observed(TRUE, TRUE)
    /\ Len(pre.speech_segments) >= 3
    /\ pre.speech_chunk_count < Len(pre.speech_segments)
    /\ pre.speech_segments[1] # arg.audio_chunk
    /\ ret = None
    /\ ap.speech_chunk_count = pre.speech_chunk_count + 1

\* C29: a non-speech window observed while Accumulating is appended before
\* the silence policy decides: a message it completes ends with it, and when
\* none is completed both times and the count stay as they were
C29_SilenceAppendedFirst ==
    Observed(FALSE, TRUE) =>
        /\ ret # None =>
              ret = Some(concatenate(Append(pre.speech_segments, arg.audio_chunk)))
        /\ ap.is_in_speech =>
              /\ ret = None
              /\ ap.speech_segments = Append(pre.speech_segments, arg.audio_chunk)
              /\ SameTimesAndCount

\* the non-speech window that completes the message has samples, and they
\* are the last samples of the message
C29_Witness ==
    /\ Observed(FALSE, TRUE)
    /\ ret # None
    /\ arg.audio_chunk # <<>>
    /\ ret[1][Len(ret[1])] = arg.current_time
    /\ Len(pre.speech_segments) >= 2

----------------------------------------------------------------------------
(* Vocabulary of the claim about the ranges of the delays *)

Within(delay, low, high) == low * delay.d <= delay.n /\ delay.n <= high * delay.d

\* after = min(before * num / den, cap), by cross multiplication
IsTimesCapped(after, before, num, den, cap) ==
    IF num * before.n >= cap * den * before.d
    THEN after.n = cap /\ after.d = 1
    ELSE den * after.n * before.d = num * before.n * after.d

\* this step is a network failure: a wait on the network delay
NetworkFailureStep == Len(net_run') = Len(net_run) + 1

\* this step is a feed outage: a wait on the feed outage delay
FeedOutageStep == Len(feed_run') = Len(feed_run) + 1

\* this step is the reset event of the network delay
NetworkResetStep == pc = "resolving" /\ pc' = "open"

\* this step is the reset event of the feed outage delay
FeedResetStep == pc = "transcribe" /\ gen'.transcribed = "text"

\* C30: the network delay is always within [10, 300] and the feed outage delay
\* within [60, 1800]; a failure sets its delay to min(delay * multiplier, max)
\* and nothing else moves a delay but its reset event, so a delay at its cap
\* stays there until that event
C30_DelaysWithinRange ==
    /\ [](/\ Within(current_network_delay, 10, 300)
          /\ Within(current_feed_outage_delay, 60, 1800))
    /\ [][ /\ NetworkFailureStep =>
                \/ IsTimesCapped(current_network_delay', current_network_delay, 3, 2, 300)
                \/ IsTimesCapped(current_network_delay', current_network_delay, 6, 5, 300)
           /\ FeedOutageStep =>
                IsTimesCapped(current_feed_outage_delay', current_feed_outage_delay,
                              3, 2, 1800)
           /\ current_network_delay' # current_network_delay =>
                NetworkFailureStep \/ NetworkResetStep
           /\ current_feed_outage_delay' # current_feed_outage_delay =>
                FeedOutageStep \/ FeedResetStep
           /\ (current_network_delay = Whole(300) /\ ~NetworkResetStep) =>
                current_network_delay' = Whole(300)
           /\ (current_feed_outage_delay = Whole(1800) /\ ~FeedResetStep) =>
                current_feed_outage_delay' = Whole(1800)
         ]_vars

\* the feed outage delay reached 1800 and the next outage left it there, and
\* the network delay has moved off its base since
C30_Witness ==
    /\ Len(feed_run) >= 2
    /\ feed_run[Len(feed_run)].wait = Whole(1800)
    /\ feed_run[Len(feed_run)].then = Whole(1800)
    /\ feed_run[Len(feed_run) - 1].wait # Whole(1800)
    /\ current_feed_outage_delay = Whole(1800)
    /\ net_run # <<>>
    /\ current_network_delay # Whole(10)

----------------------------------------------------------------------------
(* Vocabulary of the claim about the two backoff states *)

\* the loop is handling a network-class failure: a failed resolution, an
\* unexpected exception, or the end of the stream
HandlingNetworkFailure ==
    pc \in {"sleep_retry", "except", "sleep_restart", "after_for", "sleep_reconnect"}

\* the loop is handling a feed outage
HandlingFeedOutage == pc \in {"except_feed", "sleep_feed"}

\* C31: handling a network-class failure leaves the feed outage delay and the
\* count of consecutive feed outages as they are, and handling a feed outage
\* leaves the network delay as it is
C31_BackoffsIndependent ==
    [][ /\ (HandlingNetworkFailure \/ NetworkFailureStep) =>
              /\ current_feed_outage_delay' = current_feed_outage_delay
              /\ consecutive_feed_errors' = consecutive_feed_errors
        /\ (HandlingFeedOutage \/ FeedOutageStep) =>
              current_network_delay' = current_network_delay
      ]_vars

\* two feed outages raised the feed outage delay to 135, and the two network
\* failures handled after them left delay and count alone
C31_Witness ==
    /\ consecutive_feed_errors = 2
    /\ Len(feed_run) = 2
    /\ current_feed_outage_delay = Whole(135)
    /\ Len(net_run) = 2
    /\ net_run[2].kind = "failure"
    /\ pc = "while"

----------------------------------------------------------------------------
(* Vocabulary of the claim about the accumulator between connections *)

Idle(self) == ~self.is_in_speech /\ self.speech_segments = <<>>

\* the generator of the latest connection is over
RunOver == rd.pc \in {"ended", "closed"}

\* the reader has just handed a message to its consumer
MessageHandedOver == rd.pc \in {"yielded", "final"} /\ ret # None

\* C32: when a run of streamAudioChunks is over, however it ended, the
\* accumulator is Idle and holds no window; a connection therefore starts
\* reading with an Idle accumulator, and every window of a message was
\* observed on the connection that emits the message
C32_IdleBetweenConnections ==
    /\ RunOver => Idle(ap)
    /\ rd.pc = "idle" => Idle(ap)
    /\ (rd.pc = "loop" /\ rd.bytes_read = 0) => Idle(ap)
    /\ MessageHandedOver =>
          /\ ret = Some(SamplesOf(seg_log))
          /\ \A i \in 1..Len(seg_log) : seg_log[i].current_time > rd.opened_at

\* the first connection broke with a window pending, which the final flush
\* emitted; the second connection emits a message of its own windows
C32_Witness ==
    /\ rd.connection = 2
    /\ rd.prev_end \in {"error", "abandoned"}
    /\ rd.opened_at > 0
    /\ MessageHandedOver
    /\ SamplesOf(seg_log) # <<>>

----------------------------------------------------------------------------
(* Vocabulary of the claim about the windows and the messages *)

RECURSIVE Joined(_)
\* the messages returned so far, one after the other
Joined(messages) ==
    IF messages = <<>> THEN <<>>
    ELSE Head(messages) \o Joined(Tail(messages))

\* how many samples of samples carry the stamp t
Occurrences(t, samples) == Cardinality({i \in 1..Len(samples) : samples[i] = t})

\* the messages that hold a sample stamped t
MessagesWith(t) ==
    {k \in 1..Len(hist.messages) : Occurrences(t, hist.messages[k]) > 0}

Ascending(samples) ==
    \A i \in 1..Len(samples) : \A j \in 1..Len(samples) :
        i < j => samples[i] <= samples[j]

\* the samples still pending in the accumulator
Pending == concatenate(ap.speech_segments)

----------------------------------------------------------------------------
(* Vocabulary of the claims about the bounds of the open segment *)

\* the least whole number that is at least a / b
Ceil(a, b) == (a + b - 1) \div b

RECURSIVE Trailing(_)
\* how many non-speech windows end the log
Trailing(log) ==
    IF log = <<>> \/ log[Len(log)].has_speech THEN 0
    ELSE 1 + Trailing(SubSeq(log, 1, Len(log) - 1))

\* the non-speech windows that end the log came d apart, the first of them d
\* after the last speech window
TrailingSpaced(log, d) ==
    \A i \in (Len(log) - Trailing(log) + 1)..Len(log) :
        i > 1 /\ log[i].current_time - log[i - 1].current_time = d

\* the latest observe returned nothing and left the accumulator Accumulating
StillAccumulating == op = "observe" /\ ret = None /\ ap.is_in_speech

\* C34: after an observe that returns no message and leaves the accumulator
\* Accumulating, the silence so far is shorter than three silence thresholds;
\* so a message returned by observe ends with at most ceil(3 * silenceThreshold
\* / d) non-speech windows when these came d apart
C34_TrailingSilenceBounded ==
    /\ StillAccumulating =>
          arg.current_time - ap.last_speech_time < 3 * ap.silence_threshold
    /\ (op = "observe" /\ ret # None) =>
          \A d \in Steps :
              TrailingSpaced(seg_log, d) =>
                  Trailing(seg_log) <= Ceil(3 * pre.silence_threshold, d)

\* silenceThreshold 1.5 s, windows 2 s apart, one speech window: the message is
\* forced out at the third non-speech window, ceil(4.5 / 2) = 3
C34_Witness ==
    /\ op = "observe" /\ ret # None
    /\ pre.silence_threshold = Sec(1, 1)
    /\ TrailingSpaced(seg_log, Sec(2, 0))
    /\ Trailing(seg_log) = 3
    /\ Len(seg_log) = 4

\* the latest observe left the accumulator Accumulating
LeftAccumulating == op = "observe" /\ ap.is_in_speech

\* C35: after an observe that leaves the accumulator Accumulating, the speech
\* of the open segment spans less than maxSpeechDuration, and the segment as a
\* whole less than maxSpeechDuration + 3 * silenceThreshold
C35_SegmentSpanBounded ==
    LeftAccumulating =>
        /\ ap.last_speech_time - ap.speech_start_time < ap.max_speech_duration
        /\ arg.current_time - ap.speech_start_time
              < ap.max_speech_duration + 3 * ap.silence_threshold

\* a non-speech window is taken into a segment that is already as long as
\* maxSpeechDuration, and the segment stays open
C35_Witness ==
    /\ LeftAccumulating
    /\ ~arg.has_speech
    /\ arg.current_time - ap.speech_start_time >= ap.max_speech_duration
    /\ ap.speech_chunk_count >= 2

\* C36: in every state reached through observe, finalize and flush, an Idle
\* accumulator has a speech window count of 0, and an Accumulating one has a
\* count between 1 and the number of its windows, with speechStartTime <=
\* lastSpeechTime <= the time of the latest window observed
C36_CountAndTimesInRange ==
    /\ ~ap.is_in_speech => ap.speech_chunk_count = 0
    /\ ap.is_in_speech =>
          /\ 1 <= ap.speech_chunk_count
          /\ ap.speech_chunk_count <= Len(ap.speech_segments)
          /\ ap.speech_start_time <= ap.last_speech_time
          /\ ap.last_speech_time <= now

\* a segment that began after the first window holds speech and non-speech
\* windows, the latest of them non-speech, later than the last speech
C36_Witness ==
    /\ op = "observe"
    /\ ap.is_in_speech
    /\ ap.speech_chunk_count >= 2
    /\ ap.speech_chunk_count < Len(ap.speech_segments)
    /\ ap.speech_start_time < ap.last_speech_time
    /\ ap.last_speech_time < now
    /\ seg_log[1].current_time > Sec(2, 0)

\* the windows of the log came d apart
EvenlySpaced(log, d) ==
    \A i \in 2..Len(log) : log[i].current_time - log[i - 1].current_time = d

\* the latest observe evaluated a non-speech window of a segment whose windows
\* came at the default cadence of 2.0 s
SilenceAtDefaultCadence == ObservedSilence /\ EvenlySpaced(seg_log, Sec(2, 0))

ReadingStream ==
    pc \in {"open", "for", "body", "transcribe", "after_for", "sleep_reconnect"}

\* the latest network wait was a reconnect wait, so that the network delay is the
\* increased one
DelayIncreasedByDrop ==
    /\ net_run # <<>>
    /\ net_run[Len(net_run)].kind = "drop"

\* C38: every reconnect wait after a stream ended without an exception lasts the
\* base network delay of 10 s, whatever wait preceded the connection, because the
\* delay is at base from the successful resolution until that wait; the delay
\* increased by 1.2 is waited only when the next resolution fails
C38_ReconnectWaitIsBase ==
    /\ ReadingStream =>
          /\ current_network_delay = Whole(base_reconnect_delay)
          /\ net_run = <<>>
    /\ \A i \in 1..Len(net_run) :
          net_run[i].kind = "drop" =>
              /\ i = 1
              /\ net_run[i].wait = Whole(base_reconnect_delay)
              /\ net_run[i].slept = Whole(base_reconnect_delay)
              /\ IsOneAndAFifthTimes(net_run[i].then, Whole(base_reconnect_delay))
    /\ DelayIncreasedByDrop =>
          /\ current_network_delay = net_run[1].then
          /\ ~ReadingStream
    /\ \A i \in 2..Len(net_run) :
          net_run[i - 1].kind = "drop" =>
              /\ net_run[i].kind = "failure"
              /\ ~net_run[i].opened
              /\ net_run[i].wait = net_run[i - 1].then

\* a connection made right after a reconnect wait dropped in its turn and the loop
\* waited 10 s again; then the next resolution failed and the loop waited 12 s
C38_Witness ==
    /\ Len(net_run) = 2
    /\ net_run[1].kind = "drop"
    /\ net_run[1].follows = "drop"
    /\ net_run[1].opened
    /\ net_run[1].wait = [n |-> 10, d |-> 1]
    /\ net_run[2].kind = "failure"
    /\ net_run[2].wait = [n |-> 12, d |-> 1]
    /\ failures_before_reset = 1

\* runContinuousTranscription has left its loop and called stop()
Exited == pc = "done" /\ shut.stops >= 1

\* C39: after a shutdown signal runContinuousTranscription eventually leaves its
\* loop and runs stop(), also when the open stream stays alive and delivers
\* nothing but windows without speech
C39_ShutdownTerminates == _shutdown_requested ~> Exited

===========================================================================
